---------------------------- MODULE Spec2Model ----------------------------
(***************************************************************************)
(* The Todo component of todo-frontend/src/app/To-do/page.tsx: its five    *)
(* pieces of React state, its event handlers and the continuations of its  *)
(* five remote calls, together with the remote REST store they talk to.    *)
(*                                                                         *)
(* A text is a sequence of characters; a nullable value (Todo | null,      *)
(* string | null) is a sequence of length at most one: <<>> is null and    *)
(* <<x>> is x.  A message is a sequence of pieces, and a template string   *)
(* is the concatenation of its pieces.                                     *)
(*                                                                         *)
(* An async handler runs up to its fetch() in the step that issues it; its *)
(* continuation runs when the response is delivered.  The continuation     *)
(* reads the todos, newTodoTitle and editingTodo of the render in which    *)
(* the handler was invoked (they are const bindings of that render), so a  *)
(* request in flight carries the todos it closed over.                     *)
(***************************************************************************)
EXTENDS Naturals, Integers, Sequences, FiniteSets, TLC

\* ------------------------------------------------------------- bounds
\* Requests issued in all (a counter in the guards of the steps that issue
\* one).
MaxRequests == 4
\* Requests in flight at the same time.
MaxInflight == 2

\* ------------------------------------------------------------- values
Null == <<>>
Some(x) == <<x>>

WhiteSpace == {" "}
\* What the user can type into the input (onChange, line 177).
DraftInputs == { <<>>, <<" ">>, <<" ", "a">> }

RECURSIVE TrimStart(_)
TrimStart(s) ==
    IF s # <<>> /\ Head(s) \in WhiteSpace THEN TrimStart(Tail(s)) ELSE s

RECURSIVE TrimEnd(_)
TrimEnd(s) ==
    IF s # <<>> /\ s[Len(s)] \in WhiteSpace
    THEN TrimEnd(SubSeq(s, 1, Len(s) - 1))
    ELSE s

\* String.prototype.trim
Trim(s) == TrimEnd(TrimStart(s))

\* The test without the trim: newTodoTitle === ''
IsBlankNoTrim(s) == s = <<>>

\* newTodoTitle.trim() === '' (lines 50 and 138)
IsBlank(s) == Trim(s) = <<>>

\* ------------------------------------------------ collection operations
\* [...todos, addedTodo] (line 72)
AppendTodo(ts, t) == Append(ts, t)

RECURSIVE MapReplace(_, _, _)
MapReplace(ts, id, u) ==
    IF ts = <<>> THEN <<>>
    ELSE <<(IF Head(ts).id = id THEN u ELSE Head(ts))>>
            \o MapReplace(Tail(ts), id, u)

\* The map with the branches of its conditional swapped
ReplaceByIdSwapped(ts, id, u) ==
    [k \in 1..Len(ts) |-> IF ts[k].id = id THEN ts[k] ELSE u]

\* todos.map(t => (t.id === id ? updatedTodo : t)) (lines 99 and 161)
ReplaceById(ts, id, u) == MapReplace(ts, id, u)

\* todos.filter(t => t.id !== id) (line 121)
RemoveById(ts, id) == SelectSeq(ts, LAMBDA t : t.id # id)

HasId(ts, id) == \E i \in 1..Len(ts) : ts[i].id = id

\* ------------------------------------------------------------ messages
AddEmptyMessage == <<"Todo title can't be empty.">>
UpdateEmptyMessage == <<"Can't update with empty title or no todo selected.">>
LoadPrefix == <<"Failed to load todos: ">>
AddPrefix == <<"Failed to add todo: ">>
UpdatePrefix == <<"Failed to update todo: ">>
DeletePrefix == <<"Failed to delete todo: ">>
\* The message of the SyntaxError response.json() rejects with.
JsonSyntaxError == <<"Unexpected end of JSON input">>

\* response.ok
IsOk(status) == status \in 200..299

\* The message that ignores errorData.message
HttpErrorMessageStatusOnly(resp) ==
    IF ~resp.parsable THEN JsonSyntaxError
    ELSE <<"HTTP error! status: ", ToString(resp.status)>>

\* errorData.message || `HTTP error! status: ${response.status}`, or the
\* SyntaxError of response.json() (lines 28-29, 67-68, 96-97, 117-118, 157-158)
HttpErrorMessage(resp) ==
    IF ~resp.parsable THEN JsonSyntaxError
    ELSE IF resp.message # <<>> THEN resp.message
    ELSE <<"HTTP error! status: ", ToString(resp.status)>>


\* ---------------------------------------------------------------- state
VARIABLES
    todos,          \* useState<Todo[]>([]) (line 14)
    newTodoTitle,   \* useState<string>("") (line 15): the Draft
    editingTodo,    \* useState<Todo | null>(null) (line 16)
    loading,        \* useState<boolean>(true) (line 17)
    error,          \* useState<string | null>(null) (line 18)
    mounted,        \* whether the mount effect (lines 42-45) has run
    inflight,       \* the requests in flight, in issue order
    server,         \* the remote store's collection
    nextId,         \* the next id the remote store assigns
    issued,         \* how many requests have been issued
    last            \* the step that led here: its name, its argument, the
                    \* request it settled, and the state setters it called

vars == <<todos, newTodoTitle, editingTodo, loading, error, mounted,
          inflight, server, nextId, issued, last>>

Step(op, todo, req, wrote) ==
    [op |-> op, todo |-> todo, req |-> req, wrote |-> wrote]

\* A request as fetch() sends it, with what its continuation closed over:
\* the todos of the render that invoked the handler and the updatedTodo it
\* built before the fetch.  `overtaken` is history: whether a mutation of
\* the same id, in flight together with this request, has settled
\* successfully before it.
Request(op, method, id, body, closure, updated) ==
    [op |-> op, method |-> method, id |-> id, body |-> body,
     todos |-> closure, updatedTodo |-> updated, overtaken |-> FALSE]

Response(status, parsable, data, message) ==
    [status |-> status, parsable |-> parsable, data |-> data,
     message |-> message]

RemoveAt(s, i) == SubSeq(s, 1, i - 1) \o SubSeq(s, i + 1, Len(s))

\* fetch() byte-uppercases a method that matches PUT case-insensitively.
NormalizeMethod(m) == IF m \in {"Put", "put", "PUT"} THEN "PUT" ELSE m

\* JSON.stringify(x): the text of a value, and undefined (no body) for a
\* function.
JsonStringify(isFunction, x) == IF isFunction THEN Null ELSE Some(x)

\* The bounds on issuing a request.
CanIssue == Len(inflight) < MaxInflight /\ issued < MaxRequests

Init ==
    /\ todos = <<>>
    /\ newTodoTitle = <<>>
    /\ editingTodo = Null
    /\ loading = TRUE
    /\ error = Null
    /\ mounted = FALSE
    /\ inflight = <<>>
    /\ server = <<>>
    /\ nextId = 1
    /\ issued = 0
    /\ last = Step("init", Null, Null, {})

\* ------------------------------------------------------- issuing steps
\* The page is loaded (again): the component's state is the useState
\* initial state, the requests of the page before are dropped, and the
\* mount effect calls fetchTodos, which runs up to its fetch() (lines 20-25).
Mount ==
    /\ todos' = <<>>
    /\ newTodoTitle' = <<>>
    /\ editingTodo' = Null
    /\ loading' = TRUE
    /\ error' = Null
    /\ mounted' = TRUE
    /\ issued < MaxRequests
    /\ issued' = issued + 1
    /\ inflight' = <<Request("fetchTodos", "GET", 0, Null, <<>>, Null)>>
    /\ last' = Step("mount", Null, Null, {"loading", "error"})
    /\ UNCHANGED <<server, nextId>>

\* onChange of the input (line 177)
Type(s) ==
    /\ mounted
    /\ newTodoTitle' = s
    /\ last' = Step("type", Null, Null, {"newTodoTitle"})
    /\ UNCHANGED <<todos, editingTodo, loading, error, mounted, inflight,
                   server, nextId, issued>>

\* addTodo up to its fetch() (lines 47-64)
AddTodo ==
    IF IsBlank(newTodoTitle)
    THEN /\ error' = Some(AddEmptyMessage)
         /\ last' = Step("submit", Null, Null, {"error"})
         /\ UNCHANGED <<todos, newTodoTitle, editingTodo, loading, mounted,
                        inflight, server, nextId, issued>>
    ELSE /\ CanIssue
         /\ error' = Null
         /\ inflight' = Append(inflight,
                Request("addTodo", "POST", 0,
                        JsonStringify(FALSE, [title |-> newTodoTitle]),
                        todos, Null))
         /\ issued' = issued + 1
         /\ last' = Step("submit", Null, Null, {"error"})
         /\ UNCHANGED <<todos, newTodoTitle, editingTodo, loading, mounted,
                        server, nextId>>

\* updateTodo up to its fetch() (lines 135-154).  The body is
\* JSON.stringify(updateTodo), the handler itself, not updatedTodo.
UpdateTodo ==
    IF editingTodo = Null \/ IsBlank(newTodoTitle)
    THEN /\ error' = Some(UpdateEmptyMessage)
         /\ last' = Step("submit", Null, Null, {"error"})
         /\ UNCHANGED <<todos, newTodoTitle, editingTodo, loading, mounted,
                        inflight, server, nextId, issued>>
    ELSE LET updatedTodo ==
                 [editingTodo[1] EXCEPT !.title = Trim(newTodoTitle)]
         IN  /\ CanIssue
             /\ error' = Null
             /\ inflight' = Append(inflight,
                    Request("updateTodo", NormalizeMethod("Put"),
                            editingTodo[1].id,
                            JsonStringify(TRUE, updatedTodo),
                            todos, Some(updatedTodo)))
             /\ issued' = issued + 1
             /\ last' = Step("submit", Null, Null, {"error"})
             /\ UNCHANGED <<todos, newTodoTitle, editingTodo, loading,
                            mounted, server, nextId>>

\* The form with onSubmit={addTodo}, whatever the mode
SubmitAlwaysAdds ==
    /\ mounted
    /\ AddTodo

\* onSubmit={editingTodo ? updateTodo : addTodo} (line 176): the handler is
\* invoked with whatever the Draft holds (the input's `required` attribute
\* only keeps a browser from submitting the empty Draft, not a blank one).
Submit ==
    /\ mounted
    /\ IF editingTodo # Null THEN UpdateTodo ELSE AddTodo

\* The list is rendered only when !loading && todos.length > 0 (line 199).
Listed(i) == mounted /\ ~loading /\ i \in 1..Len(todos)

\* toggleTodoCompleted up to its fetch() (lines 81-93)
ToggleTodoCompleted(i) ==
    /\ Listed(i)
    /\ CanIssue
    /\ LET todoToToggle == todos[i]
           updatedTodo ==
               [todoToToggle EXCEPT !.completed = ~todoToToggle.completed]
       IN  /\ error' = Null
           /\ inflight' = Append(inflight,
                  Request("toggleTodoCompleted", "PUT", todoToToggle.id,
                          JsonStringify(FALSE, updatedTodo),
                          todos, Some(updatedTodo)))
           /\ last' = Step("toggle", Some(todoToToggle), Null, {"error"})
    /\ issued' = issued + 1
    /\ UNCHANGED <<todos, newTodoTitle, editingTodo, loading, mounted,
                   server, nextId>>

\* deleteTodo without its setError(null) before the fetch()
DeleteTodoKeepsError(i) ==
    /\ Listed(i)
    /\ CanIssue
    /\ inflight' = Append(inflight,
           Request("deleteTodo", "DELETE", todos[i].id, Null, todos, Null))
    /\ last' = Step("delete", Some(todos[i]), Null, {})
    /\ issued' = issued + 1
    /\ UNCHANGED <<todos, newTodoTitle, editingTodo, loading, error, mounted,
                   server, nextId>>

\* deleteTodo up to its fetch() (lines 107-113)
DeleteTodo(i) ==
    /\ Listed(i)
    /\ CanIssue
    /\ error' = Null
    /\ inflight' = Append(inflight,
           Request("deleteTodo", "DELETE", todos[i].id, Null, todos, Null))
    /\ last' = Step("delete", Some(todos[i]), Null, {"error"})
    /\ issued' = issued + 1
    /\ UNCHANGED <<todos, newTodoTitle, editingTodo, loading, mounted,
                   server, nextId>>

\* startEditing without its setNewTodoTitle(todoToEdit.title)
StartEditingKeepsDraft(i) ==
    /\ Listed(i)
    /\ editingTodo' = Some(todos[i])
    /\ error' = Null
    /\ last' = Step("startEdit", Some(todos[i]), Null,
                    {"editingTodo", "error"})
    /\ UNCHANGED <<todos, newTodoTitle, loading, mounted, inflight, server,
                   nextId, issued>>

\* startEditing (lines 129-133)
StartEditing(i) ==
    /\ Listed(i)
    /\ editingTodo' = Some(todos[i])
    /\ newTodoTitle' = todos[i].title
    /\ error' = Null
    /\ last' = Step("startEdit", Some(todos[i]), Null,
                    {"editingTodo", "newTodoTitle", "error"})
    /\ UNCHANGED <<todos, loading, mounted, inflight, server, nextId,
                   issued>>

\* The Cancel Edit button, rendered while editingTodo is set (lines 181-185)
CancelEdit ==
    /\ mounted
    /\ editingTodo # Null
    /\ editingTodo' = Null
    /\ newTodoTitle' = <<>>
    /\ last' = Step("cancelEdit", Null, Null, {"editingTodo", "newTodoTitle"})
    /\ UNCHANGED <<todos, loading, error, mounted, inflight, server, nextId,
                   issued>>


\* ------------------------------------------------------ the remote store
\* The REST endpoint: GET answers the collection, POST assigns the next id
\* and completed = false, PUT replaces the todo of the path's id by the
\* body (a PUT without a body changes nothing), DELETE removes it and
\* answers 204 without a body or 200 with one.  A request is answered when
\* its response is delivered.  Any request can be refused, a request for an
\* id the store does not hold is refused (with a message, with none, or
\* with a body that is not JSON), and the body of a GET's or a POST's
\* success response can arrive unparsable.
ErrorResponses ==
    { Response(500, TRUE, <<>>, <<"db down">>),
      Response(404, TRUE, <<>>, <<>>),
      Response(500, FALSE, <<>>, <<>>) }

\* The store after it has carried out request r.
StoreAfter(r) ==
    IF r.method = "POST"
    THEN Append(server, [id |-> nextId, title |-> r.body[1].title,
                         completed |-> FALSE])
    ELSE IF r.method = "PUT" /\ r.body # Null
    THEN ReplaceById(server, r.id, r.body[1])
    ELSE IF r.method = "DELETE" THEN RemoveById(server, r.id)
    ELSE server

SuccessResponses(r) ==
    IF r.method = "GET"
    THEN { Response(200, TRUE, server, <<>>),
           Response(200, FALSE, <<>>, <<>>) }
    ELSE IF r.method = "POST"
    THEN { Response(201, TRUE, <<StoreAfter(r)[Len(server) + 1]>>, <<>>),
           Response(201, FALSE, <<>>, <<>>) }
    ELSE IF ~HasId(server, r.id) THEN {}
    ELSE IF r.method = "PUT"
    THEN { Response(200, TRUE,
                    SelectSeq(StoreAfter(r), LAMBDA t : t.id = r.id), <<>>) }
    ELSE { Response(204, FALSE, <<>>, <<>>),
           Response(200, TRUE, <<>>, <<"deleted">>) }

AnswersTo(r) == ErrorResponses \cup SuccessResponses(r)

\* The requests in flight once request i is answered by resp: a successful
\* PUT overtakes the PUTs to the same id that are still in flight.
Overtake(i, resp) ==
    [j \in 1..Len(inflight) |->
        IF /\ j # i
           /\ resp \notin ErrorResponses
           /\ inflight[i].method = "PUT"
           /\ inflight[j].method = "PUT"
           /\ inflight[j].id = inflight[i].id
        THEN [inflight[j] EXCEPT !.overtaken = TRUE]
        ELSE inflight[j]]

\* The response to request i is delivered: the store has carried the
\* request out, or has refused it, and the request is no longer in flight.
Deliver(i, resp) ==
    /\ server' = IF resp \in ErrorResponses THEN server
                 ELSE StoreAfter(inflight[i])
    /\ nextId' = IF resp \notin ErrorResponses /\ inflight[i].method = "POST"
                 THEN nextId + 1 ELSE nextId
    /\ inflight' = RemoveAt(Overtake(i, resp), i)

\* -------------------------------------------------------- continuations
\* The rest of a handler, run when its response is delivered.  It reads the
\* request's closure (r.todos, r.updatedTodo), not the current state.
Pending(i, op) == i \in 1..Len(inflight) /\ inflight[i].op = op

\* The step's record of a settlement: what was sent and what was answered.
Settled(r, resp, wrote) ==
    Step("settle", Null,
         Some([op |-> r.op, method |-> r.method, id |-> r.id,
               body |-> r.body, updatedTodo |-> r.updatedTodo,
               overtaken |-> r.overtaken, resp |-> resp]),
         wrote)

\* fetchTodos with setLoading(false) in its catch block, not in a finally
SettleFetchTodosNoFinally(i) ==
    /\ Pending(i, "fetchTodos")
    /\ \E resp \in AnswersTo(inflight[i]) :
        /\ Deliver(i, resp)
        /\ IF IsOk(resp.status) /\ resp.parsable
           THEN /\ todos' = resp.data
                /\ last' = Settled(inflight[i], resp, {"todos"})
                /\ UNCHANGED <<error, loading>>
           ELSE /\ error' = Some(LoadPrefix \o HttpErrorMessage(resp))
                /\ loading' = FALSE
                /\ last' = Settled(inflight[i], resp, {"error", "loading"})
                /\ UNCHANGED todos
    /\ UNCHANGED <<newTodoTitle, editingTodo, mounted, issued>>

\* fetchTodos with setLoading(false) at the end of its try block, not in a
\* finally
SettleFetchTodosLoadingInTry(i) ==
    /\ Pending(i, "fetchTodos")
    /\ \E resp \in AnswersTo(inflight[i]) :
        /\ Deliver(i, resp)
        /\ IF IsOk(resp.status) /\ resp.parsable
           THEN /\ todos' = resp.data
                /\ loading' = FALSE
                /\ last' = Settled(inflight[i], resp, {"todos", "loading"})
                /\ UNCHANGED error
           ELSE /\ error' = Some(LoadPrefix \o HttpErrorMessage(resp))
                /\ last' = Settled(inflight[i], resp, {"error"})
                /\ UNCHANGED <<todos, loading>>
    /\ UNCHANGED <<newTodoTitle, editingTodo, mounted, issued>>

\* fetchTodos after its fetch() (lines 25-39)
SettleFetchTodos(i) ==
    /\ Pending(i, "fetchTodos")
    /\ \E resp \in AnswersTo(inflight[i]) :
        /\ Deliver(i, resp)
        /\ IF IsOk(resp.status) /\ resp.parsable
           THEN /\ todos' = resp.data
                /\ last' = Settled(inflight[i], resp, {"todos", "loading"})
                /\ UNCHANGED error
           ELSE /\ error' = Some(LoadPrefix \o HttpErrorMessage(resp))
                /\ last' = Settled(inflight[i], resp, {"error", "loading"})
                /\ UNCHANGED todos
    /\ loading' = FALSE
    /\ UNCHANGED <<newTodoTitle, editingTodo, mounted, issued>>

\* addTodo after its fetch() (lines 66-78)
SettleAddTodo(i) ==
    /\ Pending(i, "addTodo")
    /\ \E resp \in AnswersTo(inflight[i]) :
        /\ Deliver(i, resp)
        /\ IF IsOk(resp.status) /\ resp.parsable
           THEN /\ todos' = AppendTodo(inflight[i].todos, resp.data[1])
                /\ newTodoTitle' = <<>>
                /\ last' = Settled(inflight[i], resp,
                                   {"todos", "newTodoTitle"})
                /\ UNCHANGED error
           ELSE /\ error' = Some(AddPrefix \o HttpErrorMessage(resp))
                /\ last' = Settled(inflight[i], resp, {"error"})
                /\ UNCHANGED <<todos, newTodoTitle>>
    /\ UNCHANGED <<editingTodo, loading, mounted, issued>>

\* toggleTodoCompleted with its setTodos before the test of response.ok
SettleToggleBeforeOkTest(i) ==
    /\ Pending(i, "toggleTodoCompleted")
    /\ \E resp \in AnswersTo(inflight[i]) :
        /\ Deliver(i, resp)
        /\ todos' = ReplaceById(inflight[i].todos, inflight[i].id,
                                inflight[i].updatedTodo[1])
        /\ IF IsOk(resp.status)
           THEN /\ last' = Settled(inflight[i], resp, {"todos"})
                /\ UNCHANGED error
           ELSE /\ error' = Some(UpdatePrefix \o HttpErrorMessage(resp))
                /\ last' = Settled(inflight[i], resp, {"todos", "error"})
    /\ UNCHANGED <<newTodoTitle, editingTodo, loading, mounted, issued>>

\* toggleTodoCompleted after its fetch() (lines 95-104): the body of a
\* success response is not read.
SettleToggleTodoCompleted(i) ==
    /\ Pending(i, "toggleTodoCompleted")
    /\ \E resp \in AnswersTo(inflight[i]) :
        /\ Deliver(i, resp)
        /\ IF IsOk(resp.status)
           THEN /\ todos' = ReplaceById(inflight[i].todos, inflight[i].id,
                                        inflight[i].updatedTodo[1])
                /\ last' = Settled(inflight[i], resp, {"todos"})
                /\ UNCHANGED error
           ELSE /\ error' = Some(UpdatePrefix \o HttpErrorMessage(resp))
                /\ last' = Settled(inflight[i], resp, {"error"})
                /\ UNCHANGED todos
    /\ UNCHANGED <<newTodoTitle, editingTodo, loading, mounted, issued>>

\* The test that takes only a server error for a failure
DeleteRejectedOn5xx(resp) == resp.status >= 500

\* if (!response.ok) { if (response.status !== 204) { ... throw (lines 115-120)
DeleteRejected(resp) == ~IsOk(resp.status) /\ resp.status # 204

\* deleteTodo after its fetch() (lines 115-126)
SettleDeleteTodo(i) ==
    /\ Pending(i, "deleteTodo")
    /\ \E resp \in AnswersTo(inflight[i]) :
        /\ Deliver(i, resp)
        /\ IF ~DeleteRejected(resp)
           THEN /\ todos' = RemoveById(inflight[i].todos, inflight[i].id)
                /\ last' = Settled(inflight[i], resp, {"todos"})
                /\ UNCHANGED error
           ELSE /\ error' = Some(DeletePrefix \o HttpErrorMessage(resp))
                /\ last' = Settled(inflight[i], resp, {"error"})
                /\ UNCHANGED todos
    /\ UNCHANGED <<newTodoTitle, editingTodo, loading, mounted, issued>>

\* updateTodo with setEditingTodo(null) and setNewTodoTitle('') in a finally
SettleUpdateTodoAlwaysClears(i) ==
    /\ Pending(i, "updateTodo")
    /\ \E resp \in AnswersTo(inflight[i]) :
        /\ Deliver(i, resp)
        /\ IF IsOk(resp.status)
           THEN /\ todos' = ReplaceById(inflight[i].todos, inflight[i].id,
                                        inflight[i].updatedTodo[1])
                /\ last' = Settled(inflight[i], resp,
                                   {"todos", "editingTodo", "newTodoTitle"})
                /\ UNCHANGED error
           ELSE /\ error' = Some(UpdatePrefix \o HttpErrorMessage(resp))
                /\ last' = Settled(inflight[i], resp,
                                   {"error", "editingTodo", "newTodoTitle"})
                /\ UNCHANGED todos
    /\ editingTodo' = Null
    /\ newTodoTitle' = <<>>
    /\ UNCHANGED <<loading, mounted, issued>>

\* updateTodo after its fetch() (lines 156-169); r.id is editingTodo.id of
\* the render that submitted.
SettleUpdateTodo(i) ==
    /\ Pending(i, "updateTodo")
    /\ \E resp \in AnswersTo(inflight[i]) :
        /\ Deliver(i, resp)
        /\ IF IsOk(resp.status)
           THEN /\ todos' = ReplaceById(inflight[i].todos, inflight[i].id,
                                        inflight[i].updatedTodo[1])
                /\ editingTodo' = Null
                /\ newTodoTitle' = <<>>
                /\ last' = Settled(inflight[i], resp,
                                   {"todos", "editingTodo", "newTodoTitle"})
                /\ UNCHANGED error
           ELSE /\ error' = Some(UpdatePrefix \o HttpErrorMessage(resp))
                /\ last' = Settled(inflight[i], resp, {"error"})
                /\ UNCHANGED <<todos, editingTodo, newTodoTitle>>
    /\ UNCHANGED <<loading, mounted, issued>>

\* ------------------------------------------------------- specification
Next ==
    \/ Mount
    \/ \E s \in DraftInputs : Type(s)
    \/ Submit
    \/ \E i \in 1..MaxRequests : ToggleTodoCompleted(i)
    \/ \E i \in 1..MaxRequests : DeleteTodo(i)
    \/ \E i \in 1..MaxRequests : StartEditing(i)
    \/ CancelEdit
    \/ \E i \in 1..MaxInflight : SettleFetchTodos(i)
    \/ \E i \in 1..MaxInflight : SettleAddTodo(i)
    \/ \E i \in 1..MaxInflight : SettleToggleTodoCompleted(i)
    \/ \E i \in 1..MaxInflight : SettleDeleteTodo(i)
    \/ \E i \in 1..MaxInflight : SettleUpdateTodo(i)

Spec == Init /\ [][Next]_vars


\* ---------------------------------------------------------- vocabulary
\* The step into the next state settled a request of handler `op`.
Settles(op) == last'.op = "settle" /\ last'.req[1].op = op

\* The same of the step that led to the current state.
HasSettled(op) == last.op = "settle" /\ last.req[1].op = op

\* A status in 2xx, written out.
Is2xx(status) == status >= 200 /\ status <= 299

\* A text of white space only (the empty text included).
AllWhiteSpace(s) == \A k \in 1..Len(s) : s[k] \in WhiteSpace

\* A nullable message that holds a text of at least one character.
NonEmptyMessage(e) == e # Null /\ e[1] # <<>> /\ \A k \in 1..Len(e[1]) : e[1][k] # ""

\* ts with every element of id `id` taken out / replaced by u, written
\* without the collection operations of the model.
Without(ts, id) == SelectSeq(ts, LAMBDA t : t.id # id)
WithReplaced(ts, id, u) ==
    [k \in 1..Len(ts) |-> IF ts[k].id = id THEN u ELSE ts[k]]

\* -------------------------------------------------------------- claims

\* C1: at the settlement of a successful create (2xx with a Todo body) the
\* Collection is the Collection as it stood immediately before that
\* settlement with the server-returned Todo appended at the end, and the
\* Draft is empty, whatever happened while the create was in flight.
C1_CreateAppendsToCurrent ==
    [][ (Settles("addTodo") /\ Is2xx(last'.req[1].resp.status)
            /\ last'.req[1].resp.parsable)
        => /\ todos' = todos \o <<last'.req[1].resp.data[1]>>
           /\ newTodoTitle' = <<>> ]_vars

\* C2: at the settlement of a successful toggle of X the element with X's
\* id equals the request payload, and every other element of the
\* Collection as it stood immediately before the settlement is still
\* there, unchanged and in the same position.
C2_ToggleReplacesInCurrent ==
    [][ (Settles("toggleTodoCompleted") /\ Is2xx(last'.req[1].resp.status))
        => /\ Len(todos') = Len(todos)
           /\ \A k \in 1..Len(todos) :
                IF todos[k].id = last'.req[1].id
                THEN todos'[k] = last'.req[1].updatedTodo[1]
                ELSE todos'[k] = todos[k] ]_vars

\* The step into the next state settled a fetchTodos whose response is a
\* success (2xx with a body that parses).
FetchSucceeds ==
    /\ Settles("fetchTodos")
    /\ Is2xx(last'.req[1].resp.status)
    /\ last'.req[1].resp.parsable

\* C3 as stated: after the settlement of a successful fetchAll the
\* Collection equals the server's array in the same order, loading is
\* false and error is empty.
C3_FetchLeavesNoError ==
    (HasSettled("fetchTodos") /\ Is2xx(last.req[1].resp.status)
        /\ last.req[1].resp.parsable)
    => (todos = last.req[1].resp.data /\ loading = FALSE /\ error = Null)

\* C3 as amended: the settlement of a successful fetchAll makes the
\* Collection equal to the server's array in the same order and loading
\* false, and does not write error: error is what it was immediately
\* before the settlement, empty unless another attempt set it after the
\* fetch was issued.
C3_FetchReplacesAll ==
    [][ FetchSucceeds
        => /\ todos' = last'.req[1].resp.data
           /\ loading' = FALSE
           /\ error' = error ]_vars

\* A successful fetch of a non-empty array has settled while the error of
\* another attempt was showing.
C3_Witness ==
    /\ HasSettled("fetchTodos")
    /\ Is2xx(last.req[1].resp.status) /\ last.req[1].resp.parsable
    /\ last.req[1].resp.data # <<>>
    /\ todos = last.req[1].resp.data
    /\ ~loading
    /\ error # Null

\* C4: a submit with a Draft that is empty or all white space, in Adding
\* and in Editing mode alike, issues no request, sets a non-empty
\* validation error, and leaves Collection, Draft and EditingTarget
\* unchanged.
C4_BlankSubmitIsLocal ==
    [][ (last'.op = "submit" /\ AllWhiteSpace(newTodoTitle))
        => /\ inflight' = inflight
           /\ issued' = issued
           /\ NonEmptyMessage(error')
           /\ error' \in {Some(AddEmptyMessage), Some(UpdateEmptyMessage)}
           /\ todos' = todos
           /\ newTodoTitle' = newTodoTitle
           /\ editingTodo' = editingTodo ]_vars

\* A Draft of white space only has been submitted in Editing mode.
C4_Witness ==
    /\ last.op = "submit"
    /\ newTodoTitle # <<>> /\ AllWhiteSpace(newTodoTitle)
    /\ editingTodo # Null
    /\ error = Some(UpdateEmptyMessage)

\* C5: every settlement either writes the Collection and no error message,
\* or writes a non-empty error message and leaves the Collection exactly
\* as it was immediately before the settlement, never both and never
\* neither; what a settlement does not write it leaves as it was.
C5_MutationOrError ==
    [][ last'.op = "settle"
        => /\ \/ /\ "todos" \in last'.wrote
                 /\ "error" \notin last'.wrote
              \/ /\ "error" \in last'.wrote
                 /\ "todos" \notin last'.wrote
                 /\ NonEmptyMessage(error')
           /\ "todos" \notin last'.wrote => todos' = todos
           /\ "error" \notin last'.wrote => error' = error ]_vars

\* A request answered with a body that does not parse has settled as a
\* failure, with items in the Collection.
C5_Witness ==
    /\ last.op = "settle"
    /\ ~last.req[1].resp.parsable
    /\ "error" \in last.wrote
    /\ NonEmptyMessage(error)
    /\ todos # <<>>

\* C6: on a failed delete (status outside 2xx) the Collection is unchanged
\* by the settlement, so the item of the requested id is still there if it
\* was, and error holds a non-empty message.
C6_FailedDeleteKeepsCollection ==
    [][ (Settles("deleteTodo") /\ ~Is2xx(last'.req[1].resp.status))
        => /\ todos' = todos
           /\ NonEmptyMessage(error')
           /\ error'[1][1] = DeletePrefix[1] ]_vars

\* A delete has been refused and the item it asked to remove is still in
\* the Collection.
C6_Witness ==
    /\ HasSettled("deleteTodo")
    /\ ~Is2xx(last.req[1].resp.status)
    /\ \E k \in 1..Len(todos) : todos[k].id = last.req[1].id
    /\ error # Null

\* C7: on a successful remove(id) (any 2xx, 204 included) the Collection
\* holds no element of that id, and the elements of other ids that were in
\* it immediately before the settlement remain, unchanged and in the same
\* relative order.
C7_RemoveKeepsOthers ==
    [][ (Settles("deleteTodo") /\ Is2xx(last'.req[1].resp.status))
        => todos' = Without(todos, last'.req[1].id) ]_vars

\* C8: on a successful update the element of the target's id is replaced
\* by the payload (the target with title = trimmed Draft), all other
\* elements of the Collection are unchanged, EditingTarget is cleared and
\* the Draft is empty.
C8_UpdateReplacesInCurrent ==
    [][ (Settles("updateTodo") /\ Is2xx(last'.req[1].resp.status))
        => /\ todos' = WithReplaced(todos, last'.req[1].id,
                                    last'.req[1].updatedTodo[1])
           /\ editingTodo' = Null
           /\ newTodoTitle' = <<>> ]_vars

\* The step into the next state settled a submit (create or update) as a
\* failure: a status outside 2xx, or a create's body that does not parse.
SubmitFails ==
    /\ Settles("addTodo") \/ Settles("updateTodo")
    /\ \/ ~Is2xx(last'.req[1].resp.status)
       \/ Settles("addTodo") /\ ~last'.req[1].resp.parsable

\* C9: the failed settlement of an update leaves EditingTarget and Draft
\* unchanged, and the failed settlement of a create leaves the Draft and
\* the mode unchanged; the Collection is left alone and an error is shown.
C9_FailedSubmitKeepsInput ==
    [][ SubmitFails
        => /\ editingTodo' = editingTodo
           /\ newTodoTitle' = newTodoTitle
           /\ todos' = todos
           /\ NonEmptyMessage(error') ]_vars

\* An update has failed and the mode is still Editing on its target with
\* the Draft the user typed.
C9_Witness ==
    /\ HasSettled("updateTodo")
    /\ ~Is2xx(last.req[1].resp.status)
    /\ editingTodo # Null
    /\ editingTodo[1].id = last.req[1].id
    /\ newTodoTitle # <<>>
    /\ Trim(newTodoTitle) = last.req[1].updatedTodo[1].title

\* C10: startEdit(todo), from Adding or from Editing, sets the mode to
\* Editing(todo), the Draft to todo.title and clears the error; cancelEdit
\* returns the mode to Adding and the Draft to empty; neither changes the
\* Collection.
C10_EditThenCancel ==
    [][ /\ last'.op = "startEdit"
            => /\ \E k \in 1..Len(todos) : todos[k] = last'.todo[1]
               /\ editingTodo' = last'.todo
               /\ newTodoTitle' = last'.todo[1].title
               /\ error' = Null
               /\ todos' = todos
        /\ last'.op = "cancelEdit"
            => /\ editingTodo # Null
               /\ editingTodo' = Null
               /\ newTodoTitle' = <<>>
               /\ todos' = todos ]_vars

\* An edit has been cancelled: the mode is Adding again, the Draft is
\* empty and the Collection still holds its items.
C10_Witness ==
    /\ last.op = "cancelEdit"
    /\ editingTodo = Null
    /\ newTodoTitle = <<>>
    /\ todos # <<>>


\* C11: cancelEdit clears the error: in every state reached by a
\* cancelEdit, error is empty, whatever message it held before.
C11_CancelClearsError == last.op = "cancelEdit" => error = Null


\* The step into the next state settled a request as a failure: a status
\* outside 2xx, or the body of a fetchAll's or a create's success response
\* that does not parse.
SettlesAsFailure ==
    /\ last'.op = "settle"
    /\ \/ ~Is2xx(last'.req[1].resp.status)
       \/ /\ last'.req[1].op \in {"fetchTodos", "addTodo"}
          /\ ~last'.req[1].resp.parsable

\* C12: every step that issues a request (fetchAll, create, toggle, update,
\* remove) sets error to empty; the failed settlement of a request sets
\* error to a non-empty message; a successful settlement does not write
\* error, which stays what it was immediately before.
C12_ErrorFollowsAttempt ==
    [][ /\ issued' = issued + 1
            => /\ inflight' # <<>>
               /\ error' = Null
               /\ "error" \in last'.wrote
        /\ SettlesAsFailure
            => /\ NonEmptyMessage(error')
               /\ "error" \in last'.wrote
        /\ (last'.op = "settle" /\ ~SettlesAsFailure)
            => /\ error' = error
               /\ "error" \notin last'.wrote ]_vars

\* A remove has settled as a failure and left its message, while a request
\* issued after it, which emptied error at its issue, is still in flight.
C12_Witness ==
    /\ HasSettled("deleteTodo")
    /\ ~Is2xx(last.req[1].resp.status)
    /\ NonEmptyMessage(error)
    /\ inflight # <<>>


\* The step into the next state settled a toggle or an update successfully.
MutationSucceeds ==
    /\ Settles("toggleTodoCompleted") \/ Settles("updateTodo")
    /\ Is2xx(last'.req[1].resp.status)

\* C13: of two overlapping successful mutations (toggle or update) of one
\* id, the one whose response arrives last decides: after its settlement
\* every element of that id in the Collection equals its payload, whichever
\* of the two was issued first.
C13_LastResponseWins ==
    [][ (MutationSucceeds /\ last'.req[1].overtaken)
        => \A k \in 1..Len(todos') :
              todos'[k].id = last'.req[1].id
                  => todos'[k] = last'.req[1].updatedTodo[1] ]_vars

\* An update has settled successfully after a toggle of the same id that
\* was in flight together with it, and the Collection holds the update's
\* payload, which differs from what the store holds for that id.
C13_Witness ==
    /\ HasSettled("updateTodo")
    /\ Is2xx(last.req[1].resp.status)
    /\ last.req[1].overtaken
    /\ \E k \in 1..Len(todos) : todos[k] = last.req[1].updatedTodo[1]
    /\ \E k \in 1..Len(server) :
          /\ server[k].id = last.req[1].id
          /\ server[k] # last.req[1].updatedTodo[1]


\* C14: loading is true in the initial state and while a fetchAll is in
\* flight; the settlement of a fetchAll, successful or failed, makes
\* loading false; and no step other than the start and the settlement of
\* a fetchAll changes loading.
C14_LoadingFollowsFetch ==
    /\ loading = TRUE
    /\ [][ /\ last'.op = "mount"
               => /\ loading'
                  /\ \E j \in 1..Len(inflight') :
                        inflight'[j].op = "fetchTodos"
           /\ (\E j \in 1..Len(inflight') : inflight'[j].op = "fetchTodos")
               => loading'
           /\ Settles("fetchTodos") => ~loading'
           /\ (last'.op # "mount" /\ ~Settles("fetchTodos"))
               => loading' = loading ]_vars

\* A fetchAll has settled as a failure: loading is false and the error of
\* the failed load is shown.
C14_Witness ==
    /\ HasSettled("fetchTodos")
    /\ ~Is2xx(last.req[1].resp.status)
    /\ ~loading
    /\ error # Null
    /\ error[1][1] = LoadPrefix[1]


\* The step into the next state issued exactly one request, of handler
\* `op` and method `method`, and left the requests in flight as they were.
IssuesOnly(op, method) ==
    /\ Len(inflight') = Len(inflight) + 1
    /\ SubSeq(inflight', 1, Len(inflight)) = inflight
    /\ inflight'[Len(inflight')].op = op
    /\ inflight'[Len(inflight')].method = method

\* C15: what a submit does is decided by the mode at submit time alone: in
\* Adding mode it issues nothing or one create (POST), never an update; in
\* Editing mode it issues nothing or one update (PUT to the target's id),
\* never a create.
C15_SubmitFollowsMode ==
    [][ last'.op = "submit"
        => IF editingTodo = Null
           THEN inflight' = inflight \/ IssuesOnly("addTodo", "POST")
           ELSE \/ inflight' = inflight
                \/ /\ IssuesOnly("updateTodo", "PUT")
                   /\ inflight'[Len(inflight')].id = editingTodo[1].id ]_vars

\* A submit in Editing mode has issued an update, a PUT to the target's
\* id, and no create.
C15_Witness ==
    /\ last.op = "submit"
    /\ editingTodo # Null
    /\ error = Null
    /\ inflight # <<>>
    /\ inflight[Len(inflight)].op = "updateTodo"
    /\ inflight[Len(inflight)].method = "PUT"
    /\ inflight[Len(inflight)].id = editingTodo[1].id
    /\ \A j \in 1..Len(inflight) : inflight[j].method # "POST"


\* C16: the update request carries the updated Todo (the target's id, the
\* trimmed Draft as title, the target's completed flag) as its body, so
\* that a store that applies each body it receives holds the new title
\* once the update has succeeded, and a fetchAll after it yields that
\* title.
C16_UpdateCarriesTodo ==
    [][ /\ (last'.op = "submit" /\ IssuesOnly("updateTodo", "PUT"))
            => inflight'[Len(inflight')].body
                  = Some([id |-> editingTodo[1].id,
                          title |-> Trim(newTodoTitle),
                          completed |-> editingTodo[1].completed])
        /\ (Settles("updateTodo") /\ Is2xx(last'.req[1].resp.status))
            => \A k \in 1..Len(server') :
                  server'[k].id = last'.req[1].id
                      => server'[k].title
                            = last'.req[1].updatedTodo[1].title ]_vars


\* The prefix of the error an operation surfaces, written out.
OperationPrefix(op) ==
    CASE op = "fetchTodos" -> <<"Failed to load todos: ">>
      [] op = "addTodo" -> <<"Failed to add todo: ">>
      [] op = "deleteTodo" -> <<"Failed to delete todo: ">>
      [] OTHER -> <<"Failed to update todo: ">>

ChangeSucceeds ==
    /\ last'.op = "settle"
    /\ last'.req[1].op # "fetchTodos"
    /\ Is2xx(last'.req[1].resp.status)
    /\ last'.req[1].op = "addTodo" => last'.req[1].resp.parsable

\* The id that settlement is about: the id the store assigned to the
\* created Todo, or the id of the request's path.
ChangedId ==
    IF last'.req[1].op = "addTodo"
    THEN last'.req[1].resp.data[1].id
    ELSE last'.req[1].id

\* C18: no lost updates: the successful settlement of a create, toggle,
\* update or remove changes the Collection for its own id only: every
\* element of another id that was in the Collection immediately before
\* (appended by a settled create, written by a settled toggle or update)
\* is still there with the same value, and no element of another id
\* (removed by a settled remove) comes back.
C18_NoLostUpdates ==
    [][ ChangeSucceeds
        => /\ \A k \in 1..Len(todos) :
                todos[k].id # ChangedId
                    => \E j \in 1..Len(todos') : todos'[j] = todos[k]
           /\ \A j \in 1..Len(todos') :
                todos'[j].id # ChangedId
                    => \E k \in 1..Len(todos) : todos[k] = todos'[j] ]_vars


\* C19: a successful update changes only the title of its target: the
\* completed flag of the element of the target's id is the same
\* immediately after the update's settlement as immediately before it,
\* also when the item was toggled between the startEdit and the submit.
C19_UpdateKeepsCompleted ==
    [][ (Settles("updateTodo") /\ Is2xx(last'.req[1].resp.status))
        => \A k \in 1..Len(todos) : \A j \in 1..Len(todos') :
              (todos[k].id = last'.req[1].id /\ todos'[j].id = todos[k].id)
                  => todos'[j].completed = todos[k].completed ]_vars


\* C20: the settlement of a submit never changes the Draft or the
\* EditingTarget of an input session entered while the submit was in
\* flight: a create that settles while the mode is Editing(Y), and an
\* update of X that settles after a startEdit(Y) or a cancelEdit, leave
\* the Draft and the EditingTarget as they were.
C20_SettlementKeepsNewSession ==
    [][ /\ (Settles("addTodo") /\ editingTodo # Null)
            => /\ newTodoTitle' = newTodoTitle
               /\ editingTodo' = editingTodo
        /\ (/\ Settles("updateTodo")
            /\ \/ editingTodo = Null
               \/ editingTodo # Null /\ editingTodo[1].id # last'.req[1].id)
            => /\ newTodoTitle' = newTodoTitle
               /\ editingTodo' = editingTodo ]_vars

=============================================================================
